---------------------------- MODULE Spec2Model ----------------------------
(***************************************************************************)
(* Scan ledger, pallet status, totals and the Sheets outbox of main.py.    *)
(*                                                                         *)
(* Text is modelled as a sequence of one-character strings, so that the    *)
(* QR codec (strip, split, int(), float(), strptime) is computed the way   *)
(* the Python code computes it.  The three SQLite tables are sets of rows; *)
(* the UNIQUE constraints are enforced by the operators that model the     *)
(* INSERT statements, not by the representation.  Every UI callback is     *)
(* one action; the remote's answer to each HTTP request of a callback is   *)
(* an input of the action.                                                 *)
(***************************************************************************)
EXTENDS Integers, Sequences, FiniteSets, TLC

(***************************************************************************)
(* Text helpers (Python str methods on sequences of characters)            *)
(***************************************************************************)

Digits == <<"0", "1", "2", "3", "4", "5", "6", "7", "8", "9">>

IsDigit(c) == \E i \in 1..10 : Digits[i] = c

DigitVal(c) == (CHOOSE i \in 1..10 : Digits[i] = c) - 1

IsSpace(c) == c \in {" ", "\t", "\n", "\r"}

AllDigits(s) == Len(s) >= 1 /\ \A i \in 1..Len(s) : IsDigit(s[i])

RECURSIVE LStrip(_)
LStrip(s) == IF s # <<>> /\ IsSpace(Head(s)) THEN LStrip(Tail(s)) ELSE s

RECURSIVE RStrip(_)
RStrip(s) ==
    IF s # <<>> /\ IsSpace(s[Len(s)]) THEN RStrip(SubSeq(s, 1, Len(s) - 1)) ELSE s

\* str.strip()
Strip(s) == RStrip(LStrip(s))

\* c in s
Contains(s, c) == \E i \in 1..Len(s) : s[i] = c

\* index of the first c in s, 0 when there is none
FirstIndex(s, c) ==
    IF Contains(s, c) THEN CHOOSE i \in 1..Len(s) : s[i] = c /\ \A j \in 1..(i - 1) : s[j] # c
    ELSE 0

\* s.split(c): always at least one part
RECURSIVE Split(_, _)
Split(s, c) ==
    LET i == FirstIndex(s, c) IN
    IF i = 0 THEN <<s>>
    ELSE <<SubSeq(s, 1, i - 1)>> \o Split(SubSeq(s, i + 1, Len(s)), c)

\* str.lower() on the letters the model's texts use
LowerChar(c) ==
    CASE c = "N" -> "n"
      [] c = "A" -> "a"
      [] OTHER -> c

Lower(s) == [i \in 1..Len(s) |-> LowerChar(s[i])]

RECURSIVE DigitsValue(_)
DigitsValue(s) ==
    IF s = <<>> THEN 0 ELSE 10 * DigitsValue(SubSeq(s, 1, Len(s) - 1)) + DigitVal(s[Len(s)])

RECURSIVE NatToText(_)
NatToText(n) ==
    IF n < 10 THEN <<Digits[n + 1]>> ELSE NatToText(n \div 10) \o <<Digits[(n % 10) + 1]>>

\* str(n) of an integer
IntToText(n) == IF n < 0 THEN <<"-">> \o NatToText(-n) ELSE NatToText(n)

\* n rendered with at least w digits (the %0wd of isoformat)
RECURSIVE ZeroPad(_, _)
ZeroPad(s, w) == IF Len(s) >= w THEN s ELSE ZeroPad(<<"0">> \o s, w)

\* the sign and the rest of a numeric literal
SignOf(s) == IF s # <<>> /\ Head(s) = "-" THEN -1 ELSE 1

Unsigned(s) == IF s # <<>> /\ Head(s) \in {"-", "+"} THEN Tail(s) ELSE s

\* int(s) accepts an optional sign and decimal digits (surrounding blanks were
\* stripped by the caller); anything else raises ValueError
IsIntText(s) == AllDigits(Unsigned(s))

IntValue(s) == SignOf(s) * DigitsValue(Unsigned(s))

(***************************************************************************)
(* Normalisations                                                          *)
(***************************************************************************)

\* The literals float() is modelled on: an optional sign, then digits with an
\* optional "." and fraction digits ("12", "12.0", "12.", ".5").  Exponents,
\* "inf" and underscores are outside the model's inputs.
IsDecimalText(s) ==
    LET parts == Split(Unsigned(s), ".") IN
    /\ Len(parts) \in {1, 2}
    /\ \A i \in 1..Len(parts) : parts[i] = <<>> \/ AllDigits(parts[i])
    /\ \E i \in 1..Len(parts) : parts[i] # <<>>

\* float(s).is_integer()
IsIntegralDecimal(s) ==
    LET parts == Split(Unsigned(s), ".") IN
    Len(parts) = 1 \/ \A i \in 1..Len(parts[2]) : parts[2][i] = "0"

\* int(float(s))
IntegralValue(s) ==
    LET parts == Split(Unsigned(s), ".") IN SignOf(s) * DigitsValue(parts[1])

normalize_id_value(x) ==
    LET s == Strip(x) IN
    IF s = <<>> \/ Lower(s) = <<"n", "a", "n">> THEN <<>>
    ELSE IF IsDecimalText(s) /\ IsIntegralDecimal(s) THEN IntToText(IntegralValue(s))
    ELSE s

IsLeapYear(y) == (y % 4 = 0 /\ y % 100 # 0) \/ y % 400 = 0

DaysInMonth(y, m) ==
    IF m = 2 THEN (IF IsLeapYear(y) THEN 29 ELSE 28)
    ELSE IF m \in {4, 6, 9, 11} THEN 30 ELSE 31

\* datetime.strptime(s, "%d/%m/%y") succeeds: day and month of one or two
\* digits, a year of exactly two digits, and a day the month has
IsDmyText(s) ==
    LET parts == Split(s, "/") IN
    /\ Len(parts) = 3
    /\ AllDigits(parts[1]) /\ Len(parts[1]) <= 2
    /\ AllDigits(parts[2]) /\ Len(parts[2]) <= 2
    /\ AllDigits(parts[3]) /\ Len(parts[3]) = 2
    /\ DigitsValue(parts[2]) \in 1..12
    /\ LET yy == DigitsValue(parts[3])
           y == IF yy <= 68 THEN 2000 + yy ELSE 1900 + yy
       IN DigitsValue(parts[1]) \in 1..DaysInMonth(y, DigitsValue(parts[2]))

\* date.isoformat() of the parsed day/month/2-digit-year
DmyToIso(s) ==
    LET parts == Split(s, "/")
        yy == DigitsValue(parts[3])
        y == IF yy <= 68 THEN 2000 + yy ELSE 1900 + yy
    IN ZeroPad(NatToText(y), 4) \o <<"-">> \o ZeroPad(NatToText(DigitsValue(parts[2])), 2)
         \o <<"-">> \o ZeroPad(NatToText(DigitsValue(parts[1])), 2)

normalize_date_iso(x) ==
    IF x = <<>> THEN <<>>
    ELSE LET s == Strip(x) IN
         IF Contains(s, "/") THEN (IF IsDmyText(s) THEN DmyToIso(s) ELSE s) ELSE s

(***************************************************************************)
(* QR codec: parse_qr_payload                                              *)
(***************************************************************************)

KeyNS == <<"N", "S">>
KeyPRD == <<"P", "R", "D">>
KeyDSC == <<"D", "S", "C">>
KeyLOT == <<"L", "O", "T">>
KeyFEC == <<"F", "E", "C">>
KeyVTO == <<"V", "T", "O">>

required == <<KeyNS, KeyPRD, KeyDSC, KeyLOT, KeyFEC, KeyVTO>>

\* k of k, v = p.split("=", 1), stripped
PartKey(p) == Strip(SubSeq(p, 1, FirstIndex(p, "=") - 1))

\* v of k, v = p.split("=", 1), stripped
PartValue(p) == Strip(SubSeq(p, FirstIndex(p, "=") + 1, Len(p)))

\* the parts that assign data[k]; the dict keeps the last one
PartsOf(parts, k) == {i \in 1..Len(parts) : Contains(parts[i], "=") /\ PartKey(parts[i]) = k}

HasKey(parts, k) == PartsOf(parts, k) # {}

DataGet(parts, k) ==
    LET I == PartsOf(parts, k) IN PartValue(parts[CHOOSE i \in I : \A j \in I : j <= i])

\* missing = [k for k in required if k not in data or not data[k]]
MissingFields(parts) ==
    SelectSeq(required, LAMBDA k : ~HasKey(parts, k) \/ DataGet(parts, k) = <<>>)

\* Variant: a serial that is not an integer is read as 0 instead of raising.
parse_qr_payload_serial_default(raw0) ==
    LET raw == Strip(raw0)
        parts == Split(raw, "|")
    IN
    IF ~(Contains(raw, "|") /\ Contains(raw, "=")) THEN
        [ok |-> FALSE, error |-> "format", missing |-> <<>>]
    ELSE IF MissingFields(parts) # <<>> THEN
        [ok |-> FALSE, error |-> "missing", missing |-> MissingFields(parts)]
    ELSE
        [ok |-> TRUE,
         data |-> [descripcion |-> DataGet(parts, KeyDSC),
                   nro_serie |-> IF IsIntText(DataGet(parts, KeyNS))
                                 THEN IntValue(DataGet(parts, KeyNS)) ELSE 0,
                   id_producto |-> normalize_id_value(DataGet(parts, KeyPRD)),
                   lote |-> Strip(DataGet(parts, KeyLOT)),
                   creacion |-> normalize_date_iso(DataGet(parts, KeyFEC)),
                   vencimiento |-> normalize_date_iso(DataGet(parts, KeyVTO))]]

\* The result of parse_qr_payload: the dict it returns, or the ValueError it
\* raises ("format": not recognised, "missing": required fields absent or
\* empty, "int": int(data["NS"]) failed).
parse_qr_payload(raw0) ==
    LET raw == Strip(raw0)
        parts == Split(raw, "|")
    IN
    IF ~(Contains(raw, "|") /\ Contains(raw, "=")) THEN
        [ok |-> FALSE, error |-> "format", missing |-> <<>>]
    ELSE IF MissingFields(parts) # <<>> THEN
        [ok |-> FALSE, error |-> "missing", missing |-> MissingFields(parts)]
    ELSE IF ~IsIntText(DataGet(parts, KeyNS)) THEN
        [ok |-> FALSE, error |-> "int", missing |-> <<>>]
    ELSE
        [ok |-> TRUE,
         data |-> [descripcion |-> DataGet(parts, KeyDSC),
                   nro_serie |-> IntValue(DataGet(parts, KeyNS)),
                   id_producto |-> normalize_id_value(DataGet(parts, KeyPRD)),
                   lote |-> Strip(DataGet(parts, KeyLOT)),
                   creacion |-> normalize_date_iso(DataGet(parts, KeyFEC)),
                   vencimiento |-> normalize_date_iso(DataGet(parts, KeyVTO))]]

(***************************************************************************)
(* Inputs: the texts an operator can type or scan                          *)
(***************************************************************************)

\* NS=000007|PRD=12.0|DSC=Widget|LOT=090226|FEC=09/02/26|VTO=09/08/26
\* the spec's example: product 12, lot 090226, serial 7
RawWidget7 ==
    <<"N", "S", "=", "0", "0", "0", "0", "0", "7", "|", "P", "R", "D", "=",
      "1", "2", ".", "0", "|", "D", "S", "C", "=", "W", "i", "d", "g", "e",
      "t", "|", "L", "O", "T", "=", "0", "9", "0", "2", "2", "6", "|", "F",
      "E", "C", "=", "0", "9", "/", "0", "2", "/", "2", "6", "|", "V", "T",
      "O", "=", "0", "9", "/", "0", "8", "/", "2", "6">>

\*  NS=7|PRD=12|DSC=Gadget|LOT=090226|FEC=2026-02-09|VTO=31/02/26 
\* the same pallet key with another description and other date texts
RawGadget7 ==
    <<" ", "N", "S", "=", "7", "|", "P", "R", "D", "=", "1", "2", "|", "D",
      "S", "C", "=", "G", "a", "d", "g", "e", "t", "|", "L", "O", "T", "=",
      "0", "9", "0", "2", "2", "6", "|", "F", "E", "C", "=", "2", "0", "2",
      "6", "-", "0", "2", "-", "0", "9", "|", "V", "T", "O", "=", "3", "1",
      "/", "0", "2", "/", "2", "6", " ">>

\* NS=8|PRD=12|DSC=Widget|LOT=090226|FEC=09/02/26|VTO=09/08/26
\* a second pallet of product 12, lot 090226
RawWidget8 ==
    <<"N", "S", "=", "8", "|", "P", "R", "D", "=", "1", "2", "|", "D", "S",
      "C", "=", "W", "i", "d", "g", "e", "t", "|", "L", "O", "T", "=", "0",
      "9", "0", "2", "2", "6", "|", "F", "E", "C", "=", "0", "9", "/", "0",
      "2", "/", "2", "6", "|", "V", "T", "O", "=", "0", "9", "/", "0", "8",
      "/", "2", "6">>

\* NS=-3|PRD=A7|DSC=Nut|LOT=100226|FEC=10/02/26|VTO=10/08/26
\* another product and lot, with a negative serial
RawNut ==
    <<"N", "S", "=", "-", "3", "|", "P", "R", "D", "=", "A", "7", "|", "D",
      "S", "C", "=", "N", "u", "t", "|", "L", "O", "T", "=", "1", "0", "0",
      "2", "2", "6", "|", "F", "E", "C", "=", "1", "0", "/", "0", "2", "/",
      "2", "6", "|", "V", "T", "O", "=", "1", "0", "/", "0", "8", "/", "2",
      "6">>

\* NS=0|PRD=NaN|DSC=Bolt|LOT=100226|FEC=10/02/26|VTO=10/08/26
\* a product id that normalises to the empty text, serial 0
RawNan ==
    <<"N", "S", "=", "0", "|", "P", "R", "D", "=", "N", "a", "N", "|", "D",
      "S", "C", "=", "B", "o", "l", "t", "|", "L", "O", "T", "=", "1", "0",
      "0", "2", "2", "6", "|", "F", "E", "C", "=", "1", "0", "/", "0", "2",
      "/", "2", "6", "|", "V", "T", "O", "=", "1", "0", "/", "0", "8", "/",
      "2", "6">>

\* NS=1|PRD=5
\* the spec's malformed example: four fields missing
RawMissing ==
    <<"N", "S", "=", "1", "|", "P", "R", "D", "=", "5">>

\* NS=1|PRD=5|DSC=Nut|LOT= |FEC=10/02/26|VTO=10/08/26
\* a required field empty after trimming
RawEmptyLot ==
    <<"N", "S", "=", "1", "|", "P", "R", "D", "=", "5", "|", "D", "S", "C",
      "=", "N", "u", "t", "|", "L", "O", "T", "=", " ", "|", "F", "E", "C",
      "=", "1", "0", "/", "0", "2", "/", "2", "6", "|", "V", "T", "O", "=",
      "1", "0", "/", "0", "8", "/", "2", "6">>

\* NS=x1|PRD=5|DSC=Nut|LOT=100226|FEC=10/02/26|VTO=10/08/26
\* a serial int() rejects
RawBadSerial ==
    <<"N", "S", "=", "x", "1", "|", "P", "R", "D", "=", "5", "|", "D", "S",
      "C", "=", "N", "u", "t", "|", "L", "O", "T", "=", "1", "0", "0", "2",
      "2", "6", "|", "F", "E", "C", "=", "1", "0", "/", "0", "2", "/", "2",
      "6", "|", "V", "T", "O", "=", "1", "0", "/", "0", "8", "/", "2", "6">>

\* hello
\* no pipe-and-equals structure
RawGarbage ==
    <<"h", "e", "l", "l", "o">>

\* (two blanks)
\* only blanks: on_scan_return returns at once
RawBlank ==
    <<" ", " ">>

RawScans ==
    {RawWidget7, RawGadget7, RawWidget8, RawNut, RawNan, RawMissing, RawEmptyLot,
     RawBadSerial, RawGarbage, RawBlank}

\* parse_qr_payload of every input text
Decode == [raw \in RawScans |-> parse_qr_payload(raw)]

\* raw = scan_var.get().strip() is empty
Blank == [raw \in RawScans |-> Strip(raw) = <<>>]

\* the texts of the packs field
PacksTexts == {<<" ", "3">>, <<"0">>, <<"x">>, <<>>}

(***************************************************************************)
(* SQLite tables                                                           *)
(***************************************************************************)

None == [none |-> TRUE]

\* the UNIQUE(id_producto, nro_serie, lote) key of a pallet_scans row
ScanKey(r) == <<r.id_producto, r.nro_serie, r.lote>>

\* the UNIQUE(id_producto, lote, nro_serie) key of a pallet_status row
StatusKey(r) == <<r.id_producto, r.lote, r.nro_serie>>

\* Variant: the table has no UNIQUE constraint, only identical rows collide.
save_single_scan_no_unique(scans, data) ==
    IF data \in scans
    THEN [scans |-> scans, inserted |-> FALSE]
    ELSE [scans |-> scans \cup {data}, inserted |-> TRUE]

\* Variant: INSERT OR REPLACE, a re-scan overwrites the stored row.
save_single_scan_replace(scans, data) ==
    [scans |-> {r \in scans : ScanKey(r) # ScanKey(data)} \cup {data},
     inserted |-> ~\E r \in scans : ScanKey(r) = ScanKey(data)]

\* INSERT INTO pallet_scans: the row is added and True returned, unless the
\* UNIQUE constraint raises IntegrityError, which returns False
save_single_scan(scans, data) ==
    IF \E r \in scans : ScanKey(r) = ScanKey(data)
    THEN [scans |-> scans, inserted |-> FALSE]
    ELSE [scans |-> scans \cup {data}, inserted |-> TRUE]

\* Variant: ON CONFLICT DO NOTHING, the first row of a key stays.
upsert_pallet_status_ignore(status, id_producto, lote, nro_serie, is_full, packs_partial) ==
    IF \E r \in status : StatusKey(r) = <<id_producto, lote, nro_serie>>
    THEN status
    ELSE status \cup {[id_producto |-> id_producto, lote |-> lote, nro_serie |-> nro_serie,
                       is_full |-> is_full, packs_partial |-> packs_partial]}

\* Variant: the function itself stores 0 packs for a full pallet.
upsert_pallet_status_forced(status, id_producto, lote, nro_serie, is_full, packs_partial) ==
    {r \in status : StatusKey(r) # <<id_producto, lote, nro_serie>>}
    \cup {[id_producto |-> id_producto, lote |-> lote, nro_serie |-> nro_serie,
           is_full |-> is_full,
           packs_partial |-> IF is_full # 0 THEN 0 ELSE packs_partial]}

\* Variant: ON CONFLICT(id_producto, lote), one status row per lot.
upsert_pallet_status_per_lot(status, id_producto, lote, nro_serie, is_full, packs_partial) ==
    {r \in status : ~(r.id_producto = id_producto /\ r.lote = lote)}
    \cup {[id_producto |-> id_producto, lote |-> lote, nro_serie |-> nro_serie,
           is_full |-> is_full, packs_partial |-> packs_partial]}

\* INSERT ... ON CONFLICT(id_producto, lote, nro_serie) DO UPDATE
upsert_pallet_status(status, id_producto, lote, nro_serie, is_full, packs_partial) ==
    LET row == [id_producto |-> id_producto, lote |-> lote, nro_serie |-> nro_serie,
                is_full |-> is_full, packs_partial |-> packs_partial]
    IN {r \in status : StatusKey(r) # StatusKey(row)} \cup {row}

\* SELECT descripcion ... ORDER BY nro_serie ASC LIMIT 1, stripped
get_base_desc_for_lote(scans, id_producto, lote) ==
    LET rows == {r \in scans : r.id_producto = id_producto /\ r.lote = lote} IN
    IF rows = {} THEN <<>>
    ELSE Strip((CHOOSE r \in rows : \A q \in rows : r.nro_serie <= q.nro_serie).descripcion)

RECURSIVE SumPacks(_)
SumPacks(rows) ==
    IF rows = {} THEN 0
    ELSE LET r == CHOOSE x \in rows : TRUE IN r.packs_partial + SumPacks(rows \ {r})

\* Variant: the SUM has no "AND is_full = 0".
compute_totals_sum_all(scans, status, id_producto, lote) ==
    LET rows == {r \in status : r.id_producto = id_producto /\ r.lote = lote} IN
    [pallets_total |-> Cardinality(rows),
     packs_aclarados |-> SumPacks(rows),
     desc |-> get_base_desc_for_lote(scans, id_producto, lote)]

compute_totals_for_product_lote(scans, status, id_producto, lote) ==
    LET rows == {r \in status : r.id_producto = id_producto /\ r.lote = lote} IN
    [pallets_total |-> Cardinality(rows),
     packs_aclarados |-> SumPacks({r \in rows : r.is_full = 0}),
     desc |-> get_base_desc_for_lote(scans, id_producto, lote)]

SHEETS_API_KEY == "TALCA-QR-2026"

\* the timestamp of the payload is left out: the model has no clock
build_payload_for_product_lote(scans, status, id_producto, lote) ==
    LET t == compute_totals_for_product_lote(scans, status, id_producto, lote) IN
    [api_key |-> SHEETS_API_KEY,
     type |-> "scan",
     qr |-> [id_producto |-> id_producto, descripcion |-> t.desc, lote |-> lote],
     stock |-> [id_producto |-> id_producto, descripcion |-> t.desc, lote |-> lote,
                stock_total |-> t.pallets_total, packs_aclarados |-> t.packs_aclarados]]

\* INSERT INTO sheets_outbox: AUTOINCREMENT gives the row the next id
queue_outbox(outbox, nid, payload) ==
    [outbox |-> outbox \cup {[id |-> nid, payload |-> payload]}, next_id |-> nid + 1]

(***************************************************************************)
(* Delivery: send_to_sheets and flush_outbox                               *)
(***************************************************************************)

\* What the remote does with one request.
Outcomes == {"ok", "not_ok", "bad_json", "http_error", "timeout"}

\* send_to_sheets: the parsed JSON body ("ok": its ok field is true;
\* "not_ok": it is not), {"ok": False, "raw": txt} for a body that is not JSON,
\* RuntimeError for an HTTPError; a timeout or connection error (URLError) is
\* not caught and propagates as it is.
send_to_sheets(outcome) ==
    CASE outcome = "ok" -> [raised |-> FALSE, ok |-> TRUE]
      [] outcome = "not_ok" -> [raised |-> FALSE, ok |-> FALSE]
      [] outcome = "bad_json" -> [raised |-> FALSE, ok |-> FALSE]
      [] outcome = "http_error" -> [raised |-> TRUE, ok |-> FALSE]
      [] outcome = "timeout" -> [raised |-> TRUE, ok |-> FALSE]

\* how a request ended, as the send logs record it
SendResult(res) ==
    IF res.raised THEN "raised" ELSE IF res.ok THEN "accepted" ELSE "rejected"

\* what a call of send_to_sheets can give its caller
Responses == {send_to_sheets(o) : o \in Outcomes}

Accepting == send_to_sheets("ok")

\* What send_to_sheets gives for the successive requests of one loop.  Both
\* loops of the program stop at their first request that is not accepted, so
\* a script has at most one failure; a request after it would be accepted.
Scripts(n) ==
    {[i \in 1..n |-> Accepting]}
        \cup {[i \in 1..n |-> IF i = k THEN f ELSE Accepting] :
                  k \in 1..n, f \in Responses \ {Accepting}}

\* LIMIT 50 of flush_outbox's SELECT, scaled down to the model's queue lengths
FlushLimit == 2

Min(a, b) == IF a < b THEN a ELSE b

\* the row of the smallest id
MinById(rows) == CHOOSE x \in rows : \A y \in rows : x.id <= y.id

\* Variant: ORDER BY id DESC, the newest row first.
RECURSIVE SortByIdDesc(_)
SortByIdDesc(rows) ==
    IF rows = {} THEN <<>>
    ELSE SortByIdDesc({x \in rows : x.id # MinById(rows).id}) \o <<MinById(rows)>>

\* ORDER BY id ASC
RECURSIVE SortById(_)
SortById(rows) ==
    IF rows = {} THEN <<>>
    ELSE <<MinById(rows)>> \o SortById({x \in rows : x.id # MinById(rows).id})

\* Variant: the limit keeps the n rows with the highest ids.
LimitNewest(rows, n) == SubSeq(rows, Len(rows) - Min(Len(rows), n) + 1, Len(rows))

\* LIMIT n
Limit(rows, n) == SubSeq(rows, 1, Min(Len(rows), n))

\* the log of the request flush_outbox makes for a row: whether the row was
\* in the table when the request was made (queued), and how the request ended
FlushSend(row, outbox, res) ==
    [id |-> row.id, payload |-> row.payload, queued |-> row \in outbox,
     result |-> SendResult(res)]

\* the for loop of flush_outbox over the selected rows, from row i on; script[i]
\* is what send_to_sheets gives for row i
RECURSIVE FlushRows(_, _, _, _, _, _)
FlushRows(rows, i, outbox, script, sent, sends) ==
    IF i > Len(rows) THEN
        [outbox |-> outbox, sent |-> sent, raised |-> FALSE, sends |-> sends]
    ELSE
        IF script[i].raised THEN
            [outbox |-> outbox, sent |-> sent, raised |-> TRUE,
             sends |-> Append(sends, FlushSend(rows[i], outbox, script[i]))]
        ELSE IF script[i].ok THEN
            FlushRows(rows, i + 1, {e \in outbox : e.id # rows[i].id}, script, sent + 1,
                      Append(sends, FlushSend(rows[i], outbox, script[i])))
        ELSE
            [outbox |-> outbox, sent |-> sent, raised |-> FALSE,
             sends |-> Append(sends, FlushSend(rows[i], outbox, script[i]))]

\* Variant: a request that is not accepted is skipped and the loop goes on.
RECURSIVE FlushRowsSkip(_, _, _, _, _, _)
FlushRowsSkip(rows, i, outbox, script, sent, sends) ==
    IF i > Len(rows) THEN
        [outbox |-> outbox, sent |-> sent, raised |-> FALSE, sends |-> sends]
    ELSE IF script[i].raised THEN
        [outbox |-> outbox, sent |-> sent, raised |-> TRUE,
         sends |-> Append(sends, FlushSend(rows[i], outbox, script[i]))]
    ELSE IF script[i].ok THEN
        FlushRowsSkip(rows, i + 1, {e \in outbox : e.id # rows[i].id}, script, sent + 1,
                      Append(sends, FlushSend(rows[i], outbox, script[i])))
    ELSE
        FlushRowsSkip(rows, i + 1, outbox, script, sent,
                      Append(sends, FlushSend(rows[i], outbox, script[i])))

flush_outbox_skip(outbox, script) ==
    FlushRowsSkip(Limit(SortById(outbox), FlushLimit), 1, outbox, script, 0, <<>>)

\* Variant: any response that is a dict counts as accepted (res.get("ok") is
\* not compared with True).
RECURSIVE FlushRowsAnyDict(_, _, _, _, _, _)
FlushRowsAnyDict(rows, i, outbox, script, sent, sends) ==
    IF i > Len(rows) THEN
        [outbox |-> outbox, sent |-> sent, raised |-> FALSE, sends |-> sends]
    ELSE IF script[i].raised THEN
        [outbox |-> outbox, sent |-> sent, raised |-> TRUE,
         sends |-> Append(sends, FlushSend(rows[i], outbox, script[i]))]
    ELSE
        FlushRowsAnyDict(rows, i + 1, {e \in outbox : e.id # rows[i].id}, script, sent + 1,
                         Append(sends, FlushSend(rows[i], outbox, script[i])))

flush_outbox_any_dict(outbox, script) ==
    FlushRowsAnyDict(Limit(SortById(outbox), FlushLimit), 1, outbox, script, 0, <<>>)

\* Variant: the row is deleted before its request is made.
RECURSIVE FlushRowsDeleteFirst(_, _, _, _, _, _)
FlushRowsDeleteFirst(rows, i, outbox, script, sent, sends) ==
    IF i > Len(rows) THEN
        [outbox |-> outbox, sent |-> sent, raised |-> FALSE, sends |-> sends]
    ELSE IF script[i].raised \/ ~script[i].ok THEN
        [outbox |-> {e \in outbox : e.id # rows[i].id}, sent |-> sent,
         raised |-> script[i].raised,
         sends |-> Append(sends, FlushSend(rows[i], {e \in outbox : e.id # rows[i].id},
                                           script[i]))]
    ELSE
        FlushRowsDeleteFirst(rows, i + 1, {e \in outbox : e.id # rows[i].id}, script,
                             sent + 1,
                             Append(sends, FlushSend(rows[i],
                                                     {e \in outbox : e.id # rows[i].id},
                                                     script[i])))

flush_outbox_delete_first(outbox, script) ==
    FlushRowsDeleteFirst(Limit(SortById(outbox), FlushLimit), 1, outbox, script, 0, <<>>)

\* Variant: the DELETE sits in a finally clause, so a request that raises
\* loses its row.
RECURSIVE FlushRowsFinally(_, _, _, _, _, _)
FlushRowsFinally(rows, i, outbox, script, sent, sends) ==
    IF i > Len(rows) THEN
        [outbox |-> outbox, sent |-> sent, raised |-> FALSE, sends |-> sends]
    ELSE IF script[i].raised THEN
        [outbox |-> {e \in outbox : e.id # rows[i].id}, sent |-> sent, raised |-> TRUE,
         sends |-> Append(sends, FlushSend(rows[i], outbox, script[i]))]
    ELSE IF script[i].ok THEN
        FlushRowsFinally(rows, i + 1, {e \in outbox : e.id # rows[i].id}, script, sent + 1,
                         Append(sends, FlushSend(rows[i], outbox, script[i])))
    ELSE
        [outbox |-> outbox, sent |-> sent, raised |-> FALSE,
         sends |-> Append(sends, FlushSend(rows[i], outbox, script[i]))]

flush_outbox_finally(outbox, script) ==
    FlushRowsFinally(Limit(SortById(outbox), FlushLimit), 1, outbox, script, 0, <<>>)

\* Variant: the DELETE of an accepted row is missing.
RECURSIVE FlushRowsKeep(_, _, _, _, _, _)
FlushRowsKeep(rows, i, outbox, script, sent, sends) ==
    IF i > Len(rows) THEN
        [outbox |-> outbox, sent |-> sent, raised |-> FALSE, sends |-> sends]
    ELSE IF script[i].raised \/ ~script[i].ok THEN
        [outbox |-> outbox, sent |-> sent, raised |-> script[i].raised,
         sends |-> Append(sends, FlushSend(rows[i], outbox, script[i]))]
    ELSE
        FlushRowsKeep(rows, i + 1, outbox, script, sent + 1,
                      Append(sends, FlushSend(rows[i], outbox, script[i])))

flush_outbox_keep(outbox, script) ==
    FlushRowsKeep(Limit(SortById(outbox), FlushLimit), 1, outbox, script, 0, <<>>)

\* flush_outbox: the table afterwards, the count it returns (sent) unless the
\* request raised, and the requests it made (sends), each with whether its
\* row was in the table when the request was made (queued)
flush_outbox(outbox, script) ==
    FlushRows(Limit(SortById(outbox), FlushLimit), 1, outbox, script, 0, <<>>)

\* the number of rows flush_outbox selects
FlushCount(outbox) == Min(Cardinality(outbox), FlushLimit)

\* the end of sync_product_lote_to_sheets, after its flush_outbox did f
SyncFlushed(nid, q, f) ==
    [outbox |-> f.outbox, next_id |-> q.next_id, enqueued |-> nid,
     flush_start |-> {e.id : e \in q.outbox}, flush_calls |-> 1, flush |-> f]

\* sync_product_lote_to_sheets after its queue_outbox, which gave q
SyncQueued(nid, q, script) == SyncFlushed(nid, q, flush_outbox(q.outbox, script))

\* sync_product_lote_to_sheets: build, queue, flush once
sync_product_lote_to_sheets(scans, status, outbox, nid, id_producto, lote, script) ==
    SyncQueued(nid, queue_outbox(outbox, nid,
                                 build_payload_for_product_lote(scans, status, id_producto, lote)),
               script)

(***************************************************************************)
(* Full snapshot                                                           *)
(***************************************************************************)

\* the characters of the model's texts in code-point order (SQLite's BINARY
\* collation of TEXT)
Alphabet ==
    <<" ", "-", ".", "/", "0", "1", "2", "3", "4", "5", "6", "7", "8", "9", "=",
      "A", "B", "C", "D", "E", "F", "G", "L", "N", "O", "P", "R", "S", "T", "V", "W",
      "a", "d", "e", "g", "h", "i", "l", "o", "t", "u", "x", "|">>

CharCode(c) == CHOOSE i \in 1..Len(Alphabet) : Alphabet[i] = c

RECURSIVE TextLess(_, _)
TextLess(a, b) ==
    IF b = <<>> THEN FALSE
    ELSE IF a = <<>> THEN TRUE
    ELSE IF Head(a) = Head(b) THEN TextLess(Tail(a), Tail(b))
    ELSE CharCode(Head(a)) < CharCode(Head(b))

PairLeq(p, q) == p = q \/ TextLess(p[1], q[1]) \/ (p[1] = q[1] /\ TextLess(p[2], q[2]))

\* ORDER BY id_producto ASC, lote ASC
RECURSIVE SortPairs(_)
SortPairs(pairs) ==
    IF pairs = {} THEN <<>>
    ELSE LET p == CHOOSE x \in pairs : \A y \in pairs : PairLeq(x, y)
         IN <<p>> \o SortPairs(pairs \ {p})

\* Variant: the row is appended without the "if pid and lote and desc".
SnapshotRowUnfiltered(pid, lote, t) ==
    <<[id_producto |-> pid, lote |-> lote, descripcion |-> t.desc,
       pallets |-> t.pallets_total, packs_aclarados |-> t.packs_aclarados]>>

\* the rows.append of build_full_snapshot_rows for one pair with totals t:
\* the row, or nothing when the id, the lot or the description is empty
SnapshotRow(pid, lote, t) ==
    IF pid # <<>> /\ lote # <<>> /\ t.desc # <<>> THEN
        <<[id_producto |-> pid, lote |-> lote, descripcion |-> t.desc,
           pallets |-> t.pallets_total, packs_aclarados |-> t.packs_aclarados]>>
    ELSE <<>>

\* the body of the for loop of build_full_snapshot_rows, pid and lote normalised
SnapshotPair(pid, lote, scans, status) ==
    SnapshotRow(pid, lote, compute_totals_for_product_lote(scans, status, pid, lote))

\* normalize_id_value(pid) and (lote or "").strip() of build_full_snapshot_rows,
\* tabulated over the ids and lots a decoded scan can hold
StoredScans == {Decode[raw].data : raw \in {x \in RawScans : Decode[x].ok}}

NormalizedId == [t \in {d.id_producto : d \in StoredScans} |-> normalize_id_value(t)]

StrippedLot == [t \in {d.lote : d \in StoredScans} |-> Strip(t)]

\* what the body of the for loop appends for each pair of the SELECT DISTINCT
PairRows(scans, status) ==
    [p \in {<<r.id_producto, r.lote>> : r \in scans} |->
        SnapshotPair(NormalizedId[p[1]], StrippedLot[p[2]], scans, status)]

\* the for loop of build_full_snapshot_rows over the pairs in their order
RECURSIVE SnapshotRows(_, _)
SnapshotRows(pairs, rows) ==
    IF pairs = <<>> THEN <<>>
    ELSE rows[Head(pairs)] \o SnapshotRows(Tail(pairs), rows)

build_full_snapshot_rows(scans, status) ==
    SnapshotRows(SortPairs({<<r.id_producto, r.lote>> : r \in scans}),
                 PairRows(scans, status))

\* rows per bulk_snapshot request: 200 in retry_sync_full_snapshot, scaled down
\* to the model's number of lots
ChunkSize == 1

RECURSIVE chunks(_, _)
chunks(lst, n) ==
    IF lst = <<>> THEN <<>>
    ELSE <<SubSeq(lst, 1, Min(Len(lst), n))>> \o chunks(SubSeq(lst, Min(Len(lst), n) + 1, Len(lst)), n)

\* the bulk_snapshot payload of one block (its timestamp left out)
BulkPayload(block) == [api_key |-> SHEETS_API_KEY, type |-> "bulk_snapshot", rows |-> block]

\* the log of the request retry_sync_full_snapshot makes for a block
BulkSend(payload, outbox, res) ==
    [id |-> 0, payload |-> payload, queued |-> \E e \in outbox : e.payload = payload,
     result |-> SendResult(res)]

\* the for loop of retry_sync_full_snapshot over the blocks, from block i on;
\* a response that raises and one that is not ok both end in the except branch
RECURSIVE SendBlocks(_, _, _, _, _, _)
SendBlocks(blocks, i, outbox, script, total, sends) ==
    IF i > Len(blocks) THEN [failed |-> FALSE, total |-> total, sends |-> sends]
    ELSE
        IF script[i].raised \/ ~script[i].ok THEN
            [failed |-> TRUE, total |-> total,
             sends |-> Append(sends, BulkSend(BulkPayload(blocks[i]), outbox, script[i]))]
        ELSE
            SendBlocks(blocks, i + 1, outbox, script, total + Len(blocks[i]),
                       Append(sends, BulkSend(BulkPayload(blocks[i]), outbox, script[i])))

(***************************************************************************)
(* State                                                                   *)
(***************************************************************************)

VARIABLES
    pallet_scans,    \* table pallet_scans: the scan ledger
    pallet_status,   \* table pallet_status
    sheets_outbox,   \* table sheets_outbox: rows [id, payload]
    next_id,         \* the id AUTOINCREMENT gives the next outbox row
    pending_data,    \* pending_data["data"]: the scan waiting for its packs
    is_partial_var,  \* the "Pallet parcial" toggle
    remote_up,       \* environment: from now on the remote accepts every request
    accepted,        \* history: the outbox ids the remote answered ok = true
    delivered,       \* history: per (id_producto, lote), the stock of the scan payload
                     \* the remote accepted last
    last             \* history: what the last callback did

vars ==
    <<pallet_scans, pallet_status, sheets_outbox, next_id, pending_data, is_partial_var,
      remote_up, accepted, delivered, last>>

\* outbox rows ever inserted (bounds the model)
MaxId == 3

\* the pairs (id_producto, lote) a decoded scan can name
Pairs == {<<d.id_producto, d.lote>> : d \in StoredScans}

\* the remote after the requests of a flush_outbox, in the order sent: an
\* accepted scan payload replaces what it holds of the pair
RECURSIVE DeliverScans(_, _)
DeliverScans(d, sends) ==
    IF sends = <<>> THEN d
    ELSE IF Head(sends).result # "accepted" THEN DeliverScans(d, Tail(sends))
    ELSE DeliverScans(
             [d EXCEPT ![<<Head(sends).payload.stock.id_producto,
                           Head(sends).payload.stock.lote>>] =
                 [stock_total |-> Head(sends).payload.stock.stock_total,
                  packs_aclarados |-> Head(sends).payload.stock.packs_aclarados]],
             Tail(sends))

\* the pairs of the rows of the accepted bulk_snapshot requests
SnapshotPairsAccepted(sends) ==
    {<<sends[i].payload.rows[j].id_producto, sends[i].payload.rows[j].lote>> :
        <<i, j>> \in {x \in (1..Len(sends)) \X (1..ChunkSize) :
                          /\ sends[x[1]].result = "accepted"
                          /\ x[2] <= Len(sends[x[1]].payload.rows)}}

\* the record of a callback that neither committed nor sent anything
Idle ==
    [op |-> "none", committed |-> FALSE, data |-> None, is_full |-> 0, packs_partial |-> 0,
     inserted |-> FALSE, enqueued |-> 0, flush_calls |-> 0, flush_start |-> {},
     flush_raised |-> FALSE, flush_sent |-> 0, flush_sends |-> <<>>, bulk_sends |-> <<>>,
     retry |-> "none", total |-> 0, shown_total |-> -1]

Init ==
    /\ pallet_scans = {}
    /\ pallet_status = {}
    /\ sheets_outbox = {}
    /\ next_id = 1
    /\ pending_data = None
    /\ is_partial_var = FALSE
    /\ remote_up = FALSE
    /\ accepted = {}
    /\ delivered = [p \in Pairs |-> None]
    /\ last = Idle

\* the scripts the remote can follow for n requests
RemoteScripts(n) == IF remote_up THEN {[i \in 1..n |-> Accepting]} ELSE Scripts(n)

AcceptedIds(sends) == {sends[i].id : i \in {j \in 1..Len(sends) : sends[j].result = "accepted"}}

(***************************************************************************)
(* commit_scan                                                             *)
(***************************************************************************)

\* commit_scan after save_single_scan gave s and upsert_pallet_status gave st
CommitSaved(s, st, outbox, nid, data, script) ==
    [scans |-> s.scans, status |-> st, inserted |-> s.inserted,
     sync |-> sync_product_lote_to_sheets(s.scans, st, outbox, nid,
                                          data.id_producto, data.lote, script)]

\* Variant: the totals are synced before the status is upserted.
commit_scan_sync_first(scans, status, outbox, nid, data, is_full, packs_partial, script) ==
    [scans |-> save_single_scan(scans, data).scans,
     status |-> upsert_pallet_status(status, data.id_producto, data.lote, data.nro_serie,
                                     IF is_full # 0 THEN 1 ELSE 0,
                                     IF is_full = 0 THEN packs_partial ELSE 0),
     inserted |-> save_single_scan(scans, data).inserted,
     sync |-> sync_product_lote_to_sheets(save_single_scan(scans, data).scans, status,
                                          outbox, nid, data.id_producto, data.lote, script)]

\* commit_scan up to its call of clear_pending: the tables afterwards and
\* what was done.  An exception of the sync is caught and only shown.
commit_scan(scans, status, outbox, nid, data, is_full, packs_partial, script) ==
    CommitSaved(save_single_scan(scans, data),
                upsert_pallet_status(status, data.id_producto, data.lote, data.nro_serie,
                                     IF is_full # 0 THEN 1 ELSE 0,
                                     IF is_full = 0 THEN packs_partial ELSE 0),
                outbox, nid, data, script)

\* the state after a commit_scan that did c, which ends with clear_pending
Committed(op, data, is_full, packs_partial, c) ==
        /\ pallet_scans' = c.scans
        /\ pallet_status' = c.status
        /\ sheets_outbox' = c.sync.outbox
        /\ next_id' = c.sync.next_id
        /\ pending_data' = None
        /\ accepted' = accepted \cup AcceptedIds(c.sync.flush.sends)
        /\ delivered' = DeliverScans(delivered, c.sync.flush.sends)
        /\ last' = [op |-> op, committed |-> TRUE, data |-> data, is_full |-> is_full,
                    packs_partial |-> packs_partial, inserted |-> c.inserted,
                    enqueued |-> c.sync.enqueued, flush_calls |-> c.sync.flush_calls,
                    flush_start |-> c.sync.flush_start,
                    flush_raised |-> c.sync.flush.raised, flush_sent |-> c.sync.flush.sent,
                    flush_sends |-> c.sync.flush.sends, bulk_sends |-> <<>>,
                    retry |-> "none", total |-> 0, shown_total |-> -1]

\* a callback op runs commit_scan
Commit(op, data, is_full, packs_partial) ==
    /\ next_id <= MaxId
    /\ \E script \in RemoteScripts(Min(Cardinality(sheets_outbox) + 1, FlushLimit)) :
        \E c \in {commit_scan(pallet_scans, pallet_status, sheets_outbox, next_id,
                             data, is_full, packs_partial, script)} :
            Committed(op, data, is_full, packs_partial, c)

\* a callback ends without touching the tables
NoCommit(pending) ==
    /\ pending_data' = pending
    /\ last' = Idle
    /\ UNCHANGED <<pallet_scans, pallet_status, sheets_outbox, next_id, accepted,
                   delivered>>

\* the except branch of on_scan_return: the error is shown, clear_pending()
ScanError ==
    /\ pending_data' = None
    /\ last' = [Idle EXCEPT !.op = "scan_error"]
    /\ UNCHANGED <<pallet_scans, pallet_status, sheets_outbox, next_id, accepted,
                   delivered>>

(***************************************************************************)
(* Callbacks                                                               *)
(***************************************************************************)

\* Enter in the scan field
on_scan_return(raws) ==
    \E raw \in raws :
        /\ UNCHANGED <<is_partial_var, remote_up>>
        /\ IF Blank[raw] THEN
               NoCommit(pending_data)
           ELSE IF ~Decode[raw].ok THEN
               ScanError
           ELSE IF ~is_partial_var THEN
               Commit("scan", Decode[raw].data, 1, 0)
           ELSE
               NoCommit(Decode[raw].data)

\* Variant: the packs text only has to be an integer.
on_packs_return_any_int ==
    \E text \in PacksTexts :
        /\ UNCHANGED <<is_partial_var, remote_up>>
        /\ IF pending_data = None THEN
               NoCommit(pending_data)
           ELSE IF ~is_partial_var THEN
               Commit("packs", pending_data, 1, 0)
           ELSE IF ~IsIntText(Strip(text)) THEN
               NoCommit(pending_data)
           ELSE
               Commit("packs", pending_data, 0, IntValue(Strip(text)))

\* Enter in the packs field
on_packs_return ==
    \E text \in PacksTexts :
        /\ UNCHANGED <<is_partial_var, remote_up>>
        /\ IF pending_data = None THEN
               NoCommit(pending_data)
           ELSE IF ~is_partial_var THEN
               Commit("packs", pending_data, 1, 0)
           ELSE IF ~IsIntText(Strip(text)) \/ IntValue(Strip(text)) < 1 THEN
               NoCommit(pending_data)
           ELSE
               Commit("packs", pending_data, 0, IntValue(Strip(text)))

\* Variant: switching the toggle never commits.
on_toggle_changed_no_commit ==
    /\ is_partial_var' = ~is_partial_var
    /\ UNCHANGED remote_up
    /\ NoCommit(pending_data)

\* the toggle is switched
on_toggle_changed ==
    /\ is_partial_var' = ~is_partial_var
    /\ UNCHANGED remote_up
    /\ IF pending_data # None /\ ~is_partial_var'
       THEN Commit("toggle", pending_data, 1, 0)
       ELSE NoCommit(pending_data)

\* the end of retry_sync_full_snapshot, after the blocks were sent as b tells
SnapshotSent(f, b) ==
    [outbox |-> f.outbox, flush |-> f, bulk_sends |-> b.sends,
     retry |-> IF b.failed THEN "error" ELSE "ok",
     total |-> b.total, shown_total |-> IF b.failed THEN -1 ELSE b.total]

\* retry_sync_full_snapshot: what it did and what it showed (shown_total is
\* the row count of the success message, -1 when no count is shown), given
\* f, what its flush_outbox did, and all_rows, build_full_snapshot_rows of
\* the tables, which flush_outbox does not write
retry_sync_full_snapshot(all_rows, f, bscript) ==
    IF f.raised THEN
        [outbox |-> f.outbox, flush |-> f, bulk_sends |-> <<>>, retry |-> "error",
         total |-> 0, shown_total |-> -1]
    ELSE IF all_rows = <<>> THEN
        [outbox |-> f.outbox, flush |-> f, bulk_sends |-> <<>>, retry |-> "nodata",
         total |-> 0, shown_total |-> -1]
    ELSE
        SnapshotSent(f, SendBlocks(chunks(all_rows, ChunkSize), 1, f.outbox, bscript,
                                   0, <<>>))

\* the number of bulk_snapshot requests of a resync whose flush_outbox did f
BlockCount(all_rows, f) ==
    IF f.raised THEN 0 ELSE Len(chunks(all_rows, ChunkSize))

\* the state after a retry_sync_full_snapshot that did r
Resynced(r) ==
    /\ UNCHANGED <<pallet_scans, pallet_status, next_id, pending_data,
                   is_partial_var, remote_up>>
    /\ sheets_outbox' = r.outbox
    /\ accepted' = accepted \cup AcceptedIds(r.flush.sends)
    /\ delivered' = DeliverScans(delivered, r.flush.sends)
    /\ last' = [Idle EXCEPT
                    !.op = "retry", !.flush_calls = 1,
                    !.flush_start = {e.id : e \in sheets_outbox},
                    !.flush_raised = r.flush.raised, !.flush_sent = r.flush.sent,
                    !.flush_sends = r.flush.sends, !.bulk_sends = r.bulk_sends,
                    !.retry = r.retry, !.total = r.total,
                    !.shown_total = r.shown_total]

\* a resync of tables whose snapshot is all_rows, for every script of the remote
Resync(all_rows) ==
    \E fscript \in RemoteScripts(FlushCount(sheets_outbox)) :
        \E f \in {flush_outbox(sheets_outbox, fscript)} :
            \E bscript \in RemoteScripts(BlockCount(all_rows, f)) :
                \E r \in {retry_sync_full_snapshot(all_rows, f, bscript)} :
                    Resynced(r)

\* the button "Reintentar envio a Sheets"
retry_button ==
    \E all_rows \in {build_full_snapshot_rows(pallet_scans, pallet_status)} :
        Resync(all_rows)

\* environment: the outage ends for good
remote_recovers ==
    /\ ~remote_up
    /\ remote_up' = TRUE
    /\ last' = Idle
    /\ UNCHANGED <<pallet_scans, pallet_status, sheets_outbox, next_id, pending_data,
                   is_partial_var, accepted, delivered>>

\* the scan texts of the runs of Spec
ScanTexts ==
    {RawWidget7, RawGadget7, RawNut, RawMissing, RawEmptyLot, RawBadSerial, RawGarbage,
     RawBlank}

\* The callbacks, during an outage of any length: every request can fail.
Next ==
    \/ on_scan_return(ScanTexts)
    \/ on_packs_return
    \/ on_toggle_changed
    \/ retry_button

Spec == Init /\ [][Next]_vars

\* the scans of the runs in which the outage ends: a pallet and a text that
\* does not decode
FairScans == {RawWidget7, RawGarbage}

\* The callbacks and the end of the outage.
FairNext ==
    \/ on_scan_return(FairScans)
    \/ on_packs_return
    \/ on_toggle_changed
    \/ retry_button
    \/ remote_recovers

\* the retry button keeps being pressed while it has something to do
FairSpec == Init /\ [][FairNext]_vars /\ WF_vars(retry_button)

\* the scans of the runs about lots: two pallets of one lot and a pallet
\* whose PRD is "NaN"
LotScans == {RawWidget7, RawWidget8, RawNan}

\* The callbacks over the scans of LotScans.
LotNext ==
    \/ on_scan_return(LotScans)
    \/ on_packs_return
    \/ on_toggle_changed
    \/ retry_button

LotSpec == Init /\ [][LotNext]_vars

(***************************************************************************)
(* upsert_pallet_status called on its own                                  *)
(***************************************************************************)

\* the keys of the calls: three pallets of one lot and a pallet of another
StatusKeys ==
    {[id_producto |-> Decode[RawWidget7].data.id_producto,
      lote |-> Decode[RawWidget7].data.lote, nro_serie |-> n] : n \in {7, 8, 9}}
    \cup {[id_producto |-> Decode[RawNut].data.id_producto,
           lote |-> Decode[RawNut].data.lote, nro_serie |-> Decode[RawNut].data.nro_serie]}

\* the packs_partial values of the calls
StatusPacks == {0, 3, 5}

\* a call upsert_pallet_status(conn, k..., is_full, packs_partial); inserted
\* tells that the key had no row
upsert_call ==
    \E k \in StatusKeys, is_full \in {0, 1}, packs_partial \in StatusPacks :
        /\ pallet_status' = upsert_pallet_status(pallet_status, k.id_producto, k.lote,
                                                 k.nro_serie, is_full, packs_partial)
        /\ last' = [Idle EXCEPT !.op = "upsert", !.data = k, !.is_full = is_full,
                                !.packs_partial = packs_partial,
                                !.inserted = ~\E r \in pallet_status :
                                                 StatusKey(r) = StatusKey(k)]
        /\ UNCHANGED <<pallet_scans, sheets_outbox, next_id, pending_data, is_partial_var,
                       remote_up, accepted, delivered>>

StatusNext == upsert_call

StatusSpec == Init /\ [][StatusNext]_vars

(***************************************************************************)
(* Properties                                                              *)
(***************************************************************************)

\* the ids of S in ascending order
RECURSIVE SortIds(_)
SortIds(S) ==
    IF S = {} THEN <<>>
    ELSE <<CHOOSE m \in S : \A x \in S : m <= x>>
         \o SortIds(S \ {CHOOSE m \in S : \A x \in S : m <= x})

OutboxIds == {e.id : e \in sheets_outbox}

\* the positions of a log of requests that were not accepted
Failures(sends) == {i \in 1..Len(sends) : sends[i].result # "accepted"}

\* C1: flush_outbox attempts the queued entries in ascending id order without
\* skipping any, attempts nothing after the first request that is not
\* accepted, removes exactly the accepted entries e1..e(k-1) and leaves
\* ek..en queued; without a failure it attempts the whole batch.
C1_FlushInOrderHaltsAtFirstFailure ==
    last.flush_calls > 0 =>
        /\ Len(last.flush_sends) <= Min(Cardinality(last.flush_start), FlushLimit)
        /\ \A i \in 1..Len(last.flush_sends) :
               last.flush_sends[i].id = SortIds(last.flush_start)[i]
        /\ Failures(last.flush_sends) \subseteq {Len(last.flush_sends)}
        /\ OutboxIds = last.flush_start \ AcceptedIds(last.flush_sends)
        /\ Failures(last.flush_sends) = {} =>
               Len(last.flush_sends) = Min(Cardinality(last.flush_start), FlushLimit)

\* three entries A, B, C queued: A was accepted, B failed, B and C stay queued
C1_Witness ==
    /\ last.flush_calls > 0
    /\ Cardinality(last.flush_start) = 3
    /\ Len(last.flush_sends) = 2
    /\ last.flush_sends[1].result = "accepted"
    /\ last.flush_sends[2].result # "accepted"
    /\ Cardinality(sheets_outbox) = 2

\* C2: every outbox entry ever enqueued is still in the outbox or was accepted
\* by the remote (answered with ok exactly true): a rejection, a malformed
\* response, an HTTP error or a timeout removes nothing.
C2_DeletedOnlyAfterAccepted ==
    \A id \in 1..(next_id - 1) : id \in OutboxIds \/ id \in accepted

\* one entry was accepted and removed, another failed and is still queued
C2_Witness ==
    /\ accepted # {}
    /\ Failures(last.flush_sends) # {}
    /\ \E i \in Failures(last.flush_sends) : last.flush_sends[i].id \in OutboxIds
    /\ \E id \in accepted : id \notin OutboxIds

\* C3 as stated: every payload handed to send_to_sheets, by the incremental
\* sync or by the full resync, is an outbox entry at the moment of the request.
C3_EveryRequestIsAnOutboxEntry ==
    /\ \A i \in 1..Len(last.flush_sends) : last.flush_sends[i].queued
    /\ \A i \in 1..Len(last.bulk_sends) : last.bulk_sends[i].queued

\* C3: every scan payload handed to send_to_sheets (by the incremental sync
\* or by the flush that opens a full resync) is an outbox entry at the moment
\* of the request; the bulk_snapshot batches of a resync are handed to
\* send_to_sheets directly and are never outbox entries.
C3_ScanRequestsAreOutboxEntries ==
    /\ \A i \in 1..Len(last.flush_sends) :
           /\ last.flush_sends[i].queued
           /\ last.flush_sends[i].payload.type = "scan"
    /\ \A i \in 1..Len(last.bulk_sends) :
           /\ ~last.bulk_sends[i].queued
           /\ last.bulk_sends[i].payload.type = "bulk_snapshot"

\* a resync that flushed a queued entry and then sent a snapshot batch
C3_Witness ==
    /\ last.op = "retry"
    /\ last.flush_sends # <<>>
    /\ last.bulk_sends # <<>>

\* C4 as stated: every failed request, of a scan payload or of a bulk_snapshot
\* batch, leaves its payload in the outbox.
C4_EveryFailedPayloadStaysQueued ==
    /\ \A i \in Failures(last.flush_sends) :
           \E e \in sheets_outbox : e.payload = last.flush_sends[i].payload
    /\ \A i \in Failures(last.bulk_sends) :
           \E e \in sheets_outbox : e.payload = last.bulk_sends[i].payload

\* C4: every failed request of a scan payload (rejection, malformed response,
\* HTTP error or timeout) leaves its entry in the outbox, as the entry of the
\* lowest id, so the next flush attempts it first.
C4_FailedScanPayloadStaysQueued ==
    \A i \in Failures(last.flush_sends) :
        /\ [id |-> last.flush_sends[i].id, payload |-> last.flush_sends[i].payload]
               \in sheets_outbox
        /\ \A e \in sheets_outbox : last.flush_sends[i].id <= e.id

\* the request of the oldest of two queued scan payloads raised
C4_Witness ==
    /\ last.flush_raised
    /\ Failures(last.flush_sends) = {1}
    /\ Cardinality(sheets_outbox) >= 2

\* C5 as stated: a request of flush_outbox that raises (HTTP error, timeout)
\* ends the flush like a rejection does: no error leaves flush_outbox and it
\* returns the number of entries sent before.
C5_FlushNeverRaises ==
    last.flush_calls > 0 =>
        /\ ~last.flush_raised
        /\ last.flush_sent = Cardinality(AcceptedIds(last.flush_sends))

\* C6: every commit_scan enqueues exactly one entry, a scan payload of the
\* committed (id_producto, lote) with the totals of the tables after the
\* upsert, at the tail of the outbox and before any request; flush_outbox
\* then runs once, and the entry is still queued unless that flush had it
\* accepted.
C6_CommitEnqueuesThenFlushesOnce ==
    [][last'.committed =>
        /\ next_id' = next_id + 1
        /\ last'.enqueued = next_id
        /\ \A e \in sheets_outbox : e.id < next_id
        /\ last'.flush_start = OutboxIds \cup {next_id}
        /\ last'.flush_calls = 1
        /\ sheets_outbox' \subseteq
               sheets_outbox \cup
               {[id |-> next_id,
                 payload |-> build_payload_for_product_lote(
                                 pallet_scans', pallet_status',
                                 last'.data.id_producto, last'.data.lote)]}
        /\ \/ [id |-> next_id,
               payload |-> build_payload_for_product_lote(
                               pallet_scans', pallet_status',
                               last'.data.id_producto, last'.data.lote)]
                  \in sheets_outbox'
           \/ \E i \in 1..Len(last'.flush_sends) :
                  /\ last'.flush_sends[i].id = next_id
                  /\ last'.flush_sends[i].queued
                  /\ last'.flush_sends[i].result = "accepted"
                  /\ last'.flush_sends[i].payload =
                         build_payload_for_product_lote(
                             pallet_scans', pallet_status',
                             last'.data.id_producto, last'.data.lote)
    ]_vars

\* a partial pallet of 3 packs was committed, its payload (3 packs) was
\* enqueued behind an older entry and the flush did not deliver it
C6_Witness ==
    /\ last.committed
    /\ last.is_full = 0
    /\ last.enqueued > 1
    /\ Failures(last.flush_sends) # {}
    /\ \E e \in sheets_outbox :
           /\ e.id = last.enqueued
           /\ e.payload.stock.packs_aclarados = 3

\* C7: once the remote accepts every request and the retry button keeps
\* being pressed, a state follows in which every entry enqueued so far was
\* accepted and the outbox is empty; so every entry ever enqueued is
\* eventually accepted and removed, and the outbox ends empty.
C7_EventualDelivery ==
    remote_up ~> (sheets_outbox = {} /\ \A id \in 1..(next_id - 1) : id \in accepted)

\* entries queued during the outage were delivered by a resync after its end
C7_Witness ==
    /\ remote_up
    /\ last.op = "retry"
    /\ last.flush_sent = 2
    /\ sheets_outbox = {}
    /\ next_id > 2

KeysOf(scans) == {ScanKey(r) : r \in scans}

\* C8 as stated: a decoded scan held in the pending slot leaves it only by
\* being recorded in the ledger; no later scan and no later decode error
\* discards it.
C8_PendingScanNeverDiscarded ==
    [][(pending_data # None /\ ScanKey(pending_data) \notin KeysOf(pallet_scans)) =>
           \/ (pending_data' # None /\ ScanKey(pending_data') = ScanKey(pending_data))
           \/ ScanKey(pending_data) \in KeysOf(pallet_scans')]_vars

\* C9: a commit whose key is not in the ledger adds exactly its row and
\* save_single_scan returns True; a commit whose key is in the ledger leaves
\* the ledger unchanged and save_single_scan returns False; the ledger never
\* holds two rows of one key.
C9_SaveIdempotentPerKey ==
    [][last'.committed =>
        /\ last'.inserted = (ScanKey(last'.data) \notin KeysOf(pallet_scans))
        /\ last'.inserted => pallet_scans' = pallet_scans \cup {last'.data}
        /\ ~last'.inserted => pallet_scans' = pallet_scans
        /\ \A r1, r2 \in pallet_scans' : ScanKey(r1) = ScanKey(r2) => r1 = r2
    ]_vars

\* the scan of a recorded pallet was committed again: False, the row is there
C9_Witness ==
    /\ last.committed
    /\ ~last.inserted
    /\ \E r \in pallet_scans : ScanKey(r) = ScanKey(last.data)
    /\ Cardinality(pallet_scans) = Cardinality(KeysOf(pallet_scans))

\* C10: no step of a callback removes or changes a ledger row; a re-scan of a
\* recorded key with another description or other dates leaves the stored
\* row as it was.
C10_LedgerAppendOnly ==
    [][pallet_scans \subseteq pallet_scans']_vars

\* a recorded key was committed again with another description and date;
\* the ledger holds the first row, not the new one
C10_Witness ==
    /\ last.committed
    /\ ~last.inserted
    /\ last.data \notin pallet_scans
    /\ \E r \in pallet_scans :
           /\ ScanKey(r) = ScanKey(last.data)
           /\ r.descripcion # last.data.descripcion

\* the row a call of upsert_pallet_status with the arguments of last stores
UpsertedRow(l) ==
    [id_producto |-> l.data.id_producto, lote |-> l.data.lote,
     nro_serie |-> l.data.nro_serie, is_full |-> l.is_full,
     packs_partial |-> l.packs_partial]

\* C11: a call of upsert_pallet_status leaves exactly one row of its key, with
\* the is_full and packs_partial of this call, and the rows of all other keys
\* as they were; no key that was upserted loses its row.
C11_UpsertLastWriteWins ==
    [][last'.op = "upsert" =>
        /\ UpsertedRow(last') \in pallet_status'
        /\ \A r \in pallet_status' :
               StatusKey(r) = StatusKey(UpsertedRow(last')) => r = UpsertedRow(last')
        /\ {r \in pallet_status' : StatusKey(r) # StatusKey(UpsertedRow(last'))}
               = {r \in pallet_status : StatusKey(r) # StatusKey(UpsertedRow(last'))}
        /\ \A r1, r2 \in pallet_status' : StatusKey(r1) = StatusKey(r2) => r1 = r2
    ]_vars

\* a second call for a key, now partial with 5 packs, beside rows of other keys
C11_Witness ==
    /\ last.op = "upsert"
    /\ ~last.inserted
    /\ last.is_full = 0
    /\ last.packs_partial = 5
    /\ UpsertedRow(last) \in pallet_status
    /\ Cardinality(pallet_status) = 3

\* the status rows of a product and lot
RowsOf(status, id_producto, lote) ==
    {r \in status : r.id_producto = id_producto /\ r.lote = lote}

\* the packs a row adds to packs_aclarados
PartialPacks(r) == IF r.is_full = 0 THEN r.packs_partial ELSE 0

\* the sum of PartialPacks over the rows S
RECURSIVE SumPartialPacks(_)
SumPartialPacks(S) ==
    IF S = {} THEN 0
    ELSE PartialPacks(CHOOSE x \in S : TRUE)
         + SumPartialPacks(S \ {CHOOSE x \in S : TRUE})

\* C12: for every product and lot, compute_totals_for_product_lote gives the
\* number of status rows of that product and lot, full or not, as pallets and
\* the sum of packs_partial over the rows with is_full = 0 as packs_aclarados.
C12_TotalsMatchStatusRows ==
    \A k \in StatusKeys :
        /\ compute_totals_for_product_lote(pallet_scans, pallet_status,
                                           k.id_producto, k.lote).pallets_total
               = Cardinality(RowsOf(pallet_status, k.id_producto, k.lote))
        /\ compute_totals_for_product_lote(pallet_scans, pallet_status,
                                           k.id_producto, k.lote).packs_aclarados
               = SumPartialPacks(RowsOf(pallet_status, k.id_producto, k.lote))

\* rows (full), (partial, 5 packs), (partial, 3 packs) of one lot, the last
\* one switched from full to partial: 3 pallets, 8 packs
C12_Witness ==
    /\ last.op = "upsert"
    /\ ~last.inserted
    /\ last.is_full = 0
    /\ {<<r.is_full, r.packs_partial>> :
            r \in RowsOf(pallet_status, last.data.id_producto, last.data.lote)}
           = {<<1, 0>>, <<0, 5>>, <<0, 3>>}
    /\ compute_totals_for_product_lote(pallet_scans, pallet_status, last.data.id_producto,
                                       last.data.lote).pallets_total = 3
    /\ compute_totals_for_product_lote(pallet_scans, pallet_status, last.data.id_producto,
                                       last.data.lote).packs_aclarados = 8

C13_StatusRowsWellFormed ==
    \A r \in pallet_status :
        /\ r.is_full \in {0, 1}
        /\ r.is_full = 1 => r.packs_partial = 0
        /\ r.is_full = 0 => r.packs_partial >= 1

\* a partial pallet of 3 packs was committed beside a full pallet
C13_Witness ==
    /\ last.committed
    /\ last.op = "packs"
    /\ last.is_full = 0
    /\ \E r \in pallet_status : r.is_full = 0 /\ r.packs_partial = 3
    /\ \E r \in pallet_status : r.is_full = 1 /\ r.packs_partial = 0

\* the (id_producto, lote) pairs of the ledger
LedgerPairs == {<<r.id_producto, r.lote>> : r \in pallet_scans}

\* the pairs whose product id, lot and resolved description are not empty
FullPairs ==
    {p \in LedgerPairs :
        /\ p[1] # <<>>
        /\ p[2] # <<>>
        /\ get_base_desc_for_lote(pallet_scans, p[1], p[2]) # <<>>}

\* the snapshot rows agree with the pairs P: one row per pair and no other
\* row, each with the totals of its pair
SnapshotIsOf(rows, P) ==
    /\ Len(rows) = Cardinality(P)
    /\ {<<rows[i].id_producto, rows[i].lote>> : i \in 1..Len(rows)} = P
    /\ \A i \in 1..Len(rows) :
           /\ rows[i].pallets =
                  compute_totals_for_product_lote(pallet_scans, pallet_status,
                      rows[i].id_producto, rows[i].lote).pallets_total
           /\ rows[i].packs_aclarados =
                  compute_totals_for_product_lote(pallet_scans, pallet_status,
                      rows[i].id_producto, rows[i].lote).packs_aclarados
           /\ rows[i].descripcion =
                  get_base_desc_for_lote(pallet_scans, rows[i].id_producto, rows[i].lote)

\* C15: build_full_snapshot_rows returns exactly one row for every ledger pair
\* (id_producto, lote) whose id, lot and resolved description are not empty,
\* no row for any other pair, and each row carries the totals of
\* compute_totals_for_product_lote for its pair.
C15_SnapshotRowsAreFullPairs ==
    SnapshotIsOf(build_full_snapshot_rows(pallet_scans, pallet_status), FullPairs)

\* the ledger holds two pallets of one lot and a pallet with an empty product
\* id: the snapshot is one row of 2 pallets
C15_Witness ==
    /\ \E r \in pallet_scans : r.id_producto = <<>>
    /\ Cardinality(pallet_scans) = 3
    /\ Len(build_full_snapshot_rows(pallet_scans, pallet_status)) = 1
    /\ build_full_snapshot_rows(pallet_scans, pallet_status)[1].pallets = 2

\* a payload names a product, a lot and a description
NamesLot(x) == x.id_producto # <<>> /\ x.lote # <<>> /\ x.descripcion # <<>>

\* C16 as stated: no payload enqueued or delivered, scan totals or
\* bulk_snapshot row, carries an empty product id, lot or description.
C16_NoEmptyKeyInPayloads ==
    /\ \A e \in sheets_outbox : NamesLot(e.payload.qr) /\ NamesLot(e.payload.stock)
    /\ \A i \in 1..Len(last.flush_sends) :
           /\ NamesLot(last.flush_sends[i].payload.qr)
           /\ NamesLot(last.flush_sends[i].payload.stock)
    /\ \A i \in 1..Len(last.bulk_sends) :
           \A j \in 1..Len(last.bulk_sends[i].payload.rows) :
               NamesLot(last.bulk_sends[i].payload.rows[j])

\* C17 as stated: a resync stops at the first bulk_snapshot batch that is not
\* accepted, ends in failure, and the failure shown reports the number of
\* rows of the batches accepted before.
C17_ResyncFailureReportsRows ==
    (last.op = "retry" /\ Failures(last.bulk_sends) # {}) =>
        /\ Failures(last.bulk_sends) = {Len(last.bulk_sends)}
        /\ last.retry = "error"
        /\ last.total = (Len(last.bulk_sends) - 1) * ChunkSize
        /\ last.shown_total = last.total

\* The texts of the scan field that parse_qr_payload rejects: no "|" or "=",
\* a required field absent, a required field empty, a serial that is not an
\* integer.
UndecodableTexts == {RawGarbage, RawMissing, RawEmptyLot, RawBadSerial}

\* C18: a scan whose text fails to decode changes no persistent state: the
\* ledger, the status table and the outbox are the same before and after the
\* scan event, and no delivery is attempted.
C18_DecodeErrorChangesNothing ==
    [][\A raw \in UndecodableTexts :
          on_scan_return({raw}) =>
              /\ last'.op = "scan_error"
              /\ pallet_scans' = pallet_scans
              /\ pallet_status' = pallet_status
              /\ sheets_outbox' = sheets_outbox
              /\ next_id' = next_id
              /\ accepted' = accepted
              /\ last'.flush_calls = 0
              /\ last'.flush_sends = <<>>
              /\ last'.bulk_sends = <<>>]_vars

\* a decode error happened while the ledger, the status table and the outbox
\* all hold rows
C18_Witness ==
    /\ last.op = "scan_error"
    /\ pallet_scans # {}
    /\ pallet_status # {}
    /\ sheets_outbox # {}

\* C19 as stated: every record parse_qr_payload returns (held as the pending
\* scan) and every row of the ledger has a serial number of at least 1,
\* whatever accepted text it came from (a serial of 0 or a negative one
\* included).
C19_SerialAtLeastOne ==
    /\ pending_data # None => pending_data.nro_serie >= 1
    /\ \A r \in pallet_scans : r.nro_serie >= 1
    /\ \A r \in pallet_status : r.nro_serie >= 1

\* the n lowest ids of a set of ids
LowestIds(S, n) == {SortIds(S)[i] : i \in 1..Min(Cardinality(S), n)}

\* C20: one flush_outbox call attempts at most FlushLimit entries, and only
\* among the FlushLimit lowest ids queued when it starts; with a backlog of
\* more than FlushLimit entries and every request accepted it removes exactly
\* the FlushLimit oldest and leaves the rest queued, so a commit that finds
\* FlushLimit or more older entries queued does not send its own new payload
\* in that call.
C20_FlushAttemptsOldestUpToLimit ==
    last.flush_calls > 0 =>
        /\ Len(last.flush_sends) <= FlushLimit
        /\ \A i \in 1..Len(last.flush_sends) :
               last.flush_sends[i].id \in LowestIds(last.flush_start, FlushLimit)
        /\ (Cardinality(last.flush_start) > FlushLimit
               /\ Failures(last.flush_sends) = {}) =>
               /\ Len(last.flush_sends) = FlushLimit
               /\ OutboxIds = last.flush_start \ LowestIds(last.flush_start, FlushLimit)
               /\ Cardinality(sheets_outbox) = Cardinality(last.flush_start) - FlushLimit
        /\ (last.committed
               /\ Cardinality(last.flush_start \ {last.enqueued}) >= FlushLimit) =>
               /\ last.enqueued \in OutboxIds
               /\ \A i \in 1..Len(last.flush_sends) :
                      last.flush_sends[i].id # last.enqueued

\* a commit found FlushLimit older entries queued: its flush sent the two
\* oldest, both were accepted, and the entry it enqueued is the one left
C20_Witness ==
    /\ last.committed
    /\ Cardinality(last.flush_start) = FlushLimit + 1
    /\ Len(last.flush_sends) = FlushLimit
    /\ Failures(last.flush_sends) = {}
    /\ OutboxIds = {last.enqueued}

\* the ledger rows of a pair (id_producto, lote)
LedgerRowsOf(id_producto, lote) ==
    {r \in pallet_scans : r.id_producto = id_producto /\ r.lote = lote}

\* C21: after any sequence of scan, packs and toggle events the keys
\* (id_producto, lote, nro_serie) of pallet_status are the keys of
\* pallet_scans, so the pallets compute_totals_for_product_lote counts for a
\* pair is the number of ledger rows of the pair, and every row of the
\* snapshot has at least 1 pallet.
C21_StatusKeysAreLedgerKeys ==
    /\ {<<r.id_producto, r.lote, r.nro_serie>> : r \in pallet_status}
           = {<<r.id_producto, r.lote, r.nro_serie>> : r \in pallet_scans}
    /\ \A p \in LedgerPairs :
           compute_totals_for_product_lote(pallet_scans, pallet_status, p[1], p[2]).pallets_total
               = Cardinality(LedgerRowsOf(p[1], p[2]))
    /\ \A i \in 1..Len(build_full_snapshot_rows(pallet_scans, pallet_status)) :
           build_full_snapshot_rows(pallet_scans, pallet_status)[i].pallets >= 1

\* two pallets of one lot are in the ledger, one of them re-scanned as a
\* partial pallet: the lot counts 2 pallets
C21_Witness ==
    /\ \E p \in LedgerPairs :
           /\ Cardinality(LedgerRowsOf(p[1], p[2])) = 2
           /\ compute_totals_for_product_lote(pallet_scans, pallet_status,
                                               p[1], p[2]).pallets_total = 2
    /\ \E r \in pallet_status : r.is_full = 0
    /\ last.committed /\ ~last.inserted

\* the pairs (id_producto, lote) that have a row in pallet_status
StatusPairs == {<<r.id_producto, r.lote>> : r \in pallet_status}

\* C22: whenever the outbox is empty, for every pair with a status row the
\* scan payload the remote accepted last for the pair carries the
\* stock_total and packs_aclarados that compute_totals_for_product_lote
\* gives for the pair now.
C22_EmptyOutboxMeansRemoteCurrent ==
    sheets_outbox = {} =>
        \A p \in StatusPairs :
            /\ delivered[p] # None
            /\ delivered[p].stock_total =
                   compute_totals_for_product_lote(pallet_scans, pallet_status,
                                                   p[1], p[2]).pallets_total
            /\ delivered[p].packs_aclarados =
                   compute_totals_for_product_lote(pallet_scans, pallet_status,
                                                   p[1], p[2]).packs_aclarados

\* a pallet was recorded full and then again as partial with 3 packs while
\* the remote refused; a later flush emptied the outbox of both payloads and
\* the remote holds the 3 packs
C22_Witness ==
    /\ sheets_outbox = {}
    /\ Cardinality(accepted) >= 2
    /\ last.flush_sent >= 2
    /\ \E p \in StatusPairs :
           /\ delivered[p] # None
           /\ delivered[p].packs_aclarados = 3
           /\ compute_totals_for_product_lote(pallet_scans, pallet_status,
                                               p[1], p[2]).packs_aclarados = 3

\* the outbox row id is still queued after a resync whose accepted snapshot
\* carries a row of the pair of the row: the totals of the row were computed
\* before those of the snapshot
SnapshotOvertook(id) ==
    /\ last.op = "retry"
    /\ \E e \in sheets_outbox :
           /\ e.id = id
           /\ <<e.payload.stock.id_producto, e.payload.stock.lote>>
                  \in SnapshotPairsAccepted(last.bulk_sends)

\* C23 as stated: for each pair the remote accepts totals in the order they
\* were computed, across scan payloads and bulk_snapshot rows; so after a
\* resync whose accepted snapshot overtook a queued row, the next event does
\* not get that row, computed before the snapshot, accepted.
C23_TotalsAcceptedInComputedOrder ==
    [][\A id \in 1..MaxId :
          SnapshotOvertook(id) => id \notin AcceptedIds(last'.flush_sends)]_vars

\* the status row of the scan data is that of a full pallet
StoredFull(data, status) ==
    \E r \in status :
        /\ StatusKey(r) = StatusKey(data)
        /\ r.is_full = 1
        /\ r.packs_partial = 0

\* C24: between events the pending slot holds a scan only while the partial
\* toggle is on; a decodable scan with the toggle off is committed as a full
\* pallet and the slot cleared in the same event; switching the toggle off
\* while a scan is pending commits that scan as full with 0 packs and clears
\* the slot; every commit empties the slot, so a pending scan is committed
\* at most once.
C24_PendingOnlyWhilePartial ==
    /\ [](pending_data # None => is_partial_var)
    /\ [][/\ last'.committed => pending_data' = None
          /\ \A raw \in {x \in ScanTexts : Decode[x].ok} :
                 (~is_partial_var /\ on_scan_return({raw})) =>
                     /\ last'.committed
                     /\ last'.data = Decode[raw].data
                     /\ last'.is_full = 1 /\ last'.packs_partial = 0
                     /\ ScanKey(Decode[raw].data) \in KeysOf(pallet_scans')
                     /\ StoredFull(Decode[raw].data, pallet_status')
                     /\ pending_data' = None
          /\ (pending_data # None /\ is_partial_var /\ ~is_partial_var') =>
                 /\ last'.committed
                 /\ last'.data = pending_data
                 /\ last'.is_full = 1 /\ last'.packs_partial = 0
                 /\ ScanKey(pending_data) \in KeysOf(pallet_scans')
                 /\ StoredFull(pending_data, pallet_status')
                 /\ pending_data' = None]_vars

\* the toggle was switched off while a scan was pending: the scan is in the
\* ledger as a full pallet and the slot is empty
C24_Witness ==
    /\ last.op = "toggle"
    /\ last.committed
    /\ last.inserted
    /\ ~is_partial_var
    /\ pending_data = None
    /\ ScanKey(last.data) \in KeysOf(pallet_scans)
    /\ StoredFull(last.data, pallet_status)

=============================================================================
